---------------------------- MODULE Spec2Model ----------------------------
(***************************************************************************)
(* A model of the two migration scripts of the repository:                 *)
(*                                                                         *)
(*   src/refactor_movie_pages.py   refactor_file (six textual steps, a     *)
(*                                 change check, an in-place write) and    *)
(*                                 main (the loop over the target files    *)
(*                                 and the summary);                       *)
(*   src/remove-movie-code.py      main (the line-range deletion).         *)
(*                                                                         *)
(* Text.  A document is a sequence of chunks; a chunk is a string holding  *)
(* a piece of the text (the literal of the source where the source has     *)
(* one, with long generated bodies abbreviated by "...").  Every literal   *)
(* and every regular expression of the scripts is cut into chunks at the   *)
(* places where another literal of the scripts can begin or end inside     *)
(* it, so that a match of the source is a match of chunk sequences:        *)
(* str.replace and re.sub are computed chunk by chunk, leftmost first and  *)
(* non-overlapping, as Python computes them character by character.  NL    *)
(* is the only chunk that ends with a line break, so that "\n" in front    *)
(* of a closing delimiter is the chunk NL in front of it.                  *)
(***************************************************************************)
EXTENDS Naturals, Sequences, FiniteSets, TLC

(***************************************************************************)
(* Bounds of the model.                                                    *)
(***************************************************************************)
MaxFrags == 3      \* fragments per document of the transformer
MaxTargets == 3    \* entries of files_to_refactor in the batch runs
MaxRuns == 2       \* invocations of the refactoring script
MaxCtx == 3        \* legacy references per document of the rewrite runs
MaxLines == 6      \* lines of the document of the deletion engine
MaxLineNo == 7     \* largest line number a range may name
MaxRanges == 2     \* entries of DELETE_RANGES

VARIABLES
  files,              \* file system of the transformer: target index -> file
  files0,             \* the files as the current invocation found them
  files_to_refactor,  \* main: the (file, effect_key) list
  run,                \* number of the current invocation of the script
  history,            \* results of the finished invocations
  pc,                 \* control position of the transformer script
  idx,                \* main: position of the for loop in files_to_refactor
  results,            \* main: the (file, success) list
  summary,            \* main: the summary printed so far
  content,            \* refactor_file: content
  original_content,   \* refactor_file: original_content
  retval,             \* refactor_file: the value returned
  io,                 \* file operations of the current refactor_file call
  snap,               \* content after each finished step of the call
  order,              \* the step-3 patterns not yet applied, as a set
  dfs,                \* file system of the deletion engine: path -> lines
  dpc,                \* control position of the deletion script
  ranges,             \* DELETE_RANGES
  lines,              \* main: lines
  rangeNo,            \* main: position of the for loop in DELETE_RANGES
  lines_to_delete,    \* main: lines_to_delete
  kept_lines,         \* main: kept_lines
  source0             \* the input file's lines before the deletion run

rvars == <<files, files0, files_to_refactor, run, history, pc, idx, results, summary,
           content, original_content, retval, io, snap, order>>
dvars == <<dfs, dpc, ranges, lines, rangeNo, lines_to_delete, kept_lines, source0>>
vars == <<rvars, dvars>>

(***************************************************************************)
(* Sequences of chunks.                                                    *)
(***************************************************************************)
Min(S) == CHOOSE x \in S : \A y \in S : x <= y
Max(S) == CHOOSE x \in S : \A y \in S : x >= y

\* needle occurs in s at position i
MatchAt(s, i, needle) ==
  /\ i >= 1
  /\ i + Len(needle) - 1 <= Len(s)
  /\ SubSeq(s, i, i + Len(needle) - 1) = needle

\* Python's "needle in s"
Contains(s, needle) == \E i \in 1..Len(s) : MatchAt(s, i, needle)

\* the positions at which needle occurs in s
Occurrences(s, needle) == {i \in 1..Len(s) : MatchAt(s, i, needle)}

\* first occurrence of needle in s at or after from, 0 when there is none
FirstAt(s, from, needle) ==
  LET S == {i \in Occurrences(s, needle) : i >= from}
  IN  IF S = {} THEN 0 ELSE Min(S)

RECURSIVE ReplaceFrom(_, _, _, _)
ReplaceFrom(s, i, old, new) ==
  IF i > Len(s) THEN <<>>
  ELSE IF MatchAt(s, i, old)
       THEN new \o ReplaceFrom(s, i + Len(old), old, new)
       ELSE <<s[i]>> \o ReplaceFrom(s, i + 1, old, new)

ReplaceFirstOnly(s, old, new) ==
  LET p == FirstAt(s, 1, old)
  IN  IF p = 0 THEN s
      ELSE SubSeq(s, 1, p - 1) \o new \o SubSeq(s, p + Len(old), Len(s))

\* str.replace(old, new): every non-overlapping occurrence, leftmost first
Replace(s, old, new) == ReplaceFrom(s, 1, old, new)

RECURSIVE Concat(_)
Concat(ss) == IF ss = <<>> THEN <<>> ELSE Head(ss) \o Concat(Tail(ss))

\* the sequences over S of length at most n
SeqUpTo(S, n) == UNION {[1..m -> S] : m \in 0..n}

(***************************************************************************)
(* EFFECTS, the rule table.                                                *)
(***************************************************************************)
Keys == {"turntable", "reveal", "orbit", "explosion"}

EFFECTS ==
  [turntable |->
     [old_import |-> "from '../../effects/turntable/TurnTableEffect';",
      commented_import |-> "import { TurnTableEffect } from '../../effects/turntable/TurnTableEffect';",
      player_import |-> "import MovieTurntablePlayer, { type TurntableMovieHandle } from '../../effects/turntable/MovieTurntablePlayer'; // NEW: headless controller",
      config_type |-> "TurnTableConfig",
      default_config |-> "DEFAULT_CONFIG",
      effect_name |-> "Turntable",
      ref_name |-> "turntablePlayerRef",
      handle_type |-> "TurntableMovieHandle"],
   reveal |->
     [old_import |-> "from '../../effects/reveal/RevealEffect';",
      commented_import |-> "import { RevealEffect } from '../../effects/reveal/RevealEffect';",
      player_import |-> "import MovieRevealPlayer, { type RevealMovieHandle } from '../../effects/reveal/MovieRevealPlayer'; // NEW: headless controller",
      config_type |-> "RevealConfig",
      default_config |-> "DEFAULT_CONFIG",
      effect_name |-> "Reveal",
      ref_name |-> "revealPlayerRef",
      handle_type |-> "RevealMovieHandle"],
   orbit |->
     [old_import |-> "from '../../effects/orbit/OrbitEffect';",
      commented_import |-> "import { OrbitEffect } from '../../effects/orbit/OrbitEffect';",
      player_import |-> "import MovieOrbitPlayer, { type OrbitMovieHandle } from '../../effects/orbit/MovieOrbitPlayer'; // NEW: headless controller",
      config_type |-> "OrbitConfig",
      default_config |-> "DEFAULT_CONFIG",
      effect_name |-> "Orbit",
      ref_name |-> "orbitPlayerRef",
      handle_type |-> "OrbitMovieHandle"],
   explosion |->
     [old_import |-> "from '../../effects/explosion/ExplosionEffect';",
      commented_import |-> "import { ExplosionEffect } from '../../effects/explosion/ExplosionEffect';",
      player_import |-> "import MovieExplosionPlayer, { type ExplosionMovieHandle } from '../../effects/explosion/MovieExplosionPlayer'; // NEW: headless controller",
      config_type |-> "ExplosionConfig",
      default_config |-> "DEFAULT_CONFIG",
      effect_name |-> "Explosion",
      ref_name |-> "explosionPlayerRef",
      handle_type |-> "ExplosionMovieHandle"]]

NL == "\n"

\* 'new_import', cut at the line it comments out: "// " + the old import
\* statement as the table spells it + " // OLD: direct management" + "\n" +
\* the import of the player
new_import(key) ==
  <<"// ", EFFECTS[key].commented_import, " // OLD: direct management", NL,
    EFFECTS[key].player_import>>

(***************************************************************************)
(* refactor_file, step 1: the import.                                      *)
(***************************************************************************)
\* f"import {{ {config['effect_name']}Effect }} {config['old_import']}"
old_import_line_text(key) ==
  "import { " \o EFFECTS[key].effect_name \o "Effect } " \o EFFECTS[key].old_import

old_import_line(key) == <<old_import_line_text(key)>>

Step1ImportFirstOnly(key, c) ==
  ReplaceFirstOnly(c, old_import_line(key), new_import(key))

Step1Import(key, c) == Replace(c, old_import_line(key), new_import(key))

(***************************************************************************)
(* Step 2: the state declaration.                                          *)
(***************************************************************************)
old_state ==
  <<"  const [activeEffectInstance, setActiveEffectInstance] = useState<any>(null);">>

new_state(key) ==
  <<"  const " \o EFFECTS[key].ref_name \o " = useRef<"
      \o EFFECTS[key].handle_type \o " | null>(null);">>

Step2State(key, c) == Replace(c, old_state, new_state(key))

(***************************************************************************)
(* Step 3: the activeEffectInstance references.  Each entry of             *)
(* 'replacements' is a literal pattern (every regex character escaped) and *)
(* a replacement without group references, so re.sub is the replacement of *)
(* every non-overlapping occurrence.                                       *)
(***************************************************************************)
W == "activeEffectInstance"
RefCurrent(key) == EFFECTS[key].ref_name \o ".current"
Methods == <<"play()", "pause()", "stop()", "dispose()", "getConfig()",
             "setRecording(", "setConfig(">>

replacements(key) ==
  [m \in 1..Len(Methods) |->
     [pattern |-> <<W, ".", Methods[m]>>,
      replacement |-> <<RefCurrent(key), "?.", Methods[m]>>]]
  \o
  << [pattern |-> <<"if (", W, ")">>,
      replacement |-> <<"if (", RefCurrent(key), ")">>],
     [pattern |-> <<"if (", "!", W, ")">>,
      replacement |-> <<"if (", "!", RefCurrent(key), ")">>],
     [pattern |-> <<W, " &&", " (">>,
      replacement |-> <<RefCurrent(key), " &&", " (">>],
     [pattern |-> <<"{", W, " &&">>,
      replacement |-> <<"{", RefCurrent(key), " &&">>],
     [pattern |-> <<W, "?.">>,
      replacement |-> <<RefCurrent(key), "?.">>] >>

re_sub_count_1(pattern, replacement, c) == ReplaceFirstOnly(c, pattern, replacement)

re_sub(pattern, replacement, c) == Replace(c, pattern, replacement)

\* for pattern, replacement in replacements: content = re.sub(...)
RECURSIVE ApplyReplacements(_, _)
ApplyReplacements(rs, c) ==
  IF rs = <<>> THEN c
  ELSE ApplyReplacements(Tail(rs), re_sub(Head(rs).pattern, Head(rs).replacement, c))

Step3References(key, c) == ApplyReplacements(replacements(key), c)

(***************************************************************************)
(* Step 4: the removal of the old effect management blocks.  The four      *)
(* patterns are compiled with re.DOTALL, so ".*?" and ".*" run over line   *)
(* breaks: a pattern is a chain of literals with anything between them.    *)
(***************************************************************************)
AutoActivateHead ==
  "  // Auto-activate effect when context is ready\n  useEffect(() => {"
AnimationLoopHead ==
  "  // Animation loop - tick the active effect on every frame\n  useEffect(() => {"
AutoPlayHead ==
  "  // Auto-play effect when autoplay parameter is present\n  useEffect(() => {"
HandleComment == "  // Handle "
ActivateHandlerDecl == " activation\n  const handleActivateEffect = "
DepsOpen == "  }, ["
DepsClose == "]);"
BlockClose == "  };"
AutoActivateDeps == "effectContext, activeEffectInstance, movie"

\* head .*? l2 [.*? l3]: the end of the match that starts with head at h, 0
\* when there is none.  A lazy ".*?" stops at the first place from which the
\* rest of the pattern matches, and the rest matches from the first
\* occurrence of the next literal if it matches from any.
RECURSIVE LazyEnd(_, _, _)
LazyEnd(s, from, lits) ==
  IF lits = <<>> THEN from - 1
  ELSE LET p == FirstAt(s, from, Head(lits))
       IN  IF p = 0 THEN 0 ELSE LazyEnd(s, p + Len(Head(lits)), Tail(lits))

\* pattern.sub('', s) for head .*? lits[1] .*? lits[2] ..., scanning from i
RECURSIVE SubLazyFrom(_, _, _, _)
SubLazyFrom(s, i, head, lits) ==
  LET h == FirstAt(s, i, head)
      e == IF h = 0 THEN 0 ELSE LazyEnd(s, h + Len(head), lits)
  IN  IF e = 0 THEN SubSeq(s, i, Len(s))
      ELSE SubSeq(s, i, h - 1) \o SubLazyFrom(s, e + 1, head, lits)

\* old_auto_activate_pattern.sub('', content)
RemoveAutoActivate(c) ==
  SubLazyFrom(c, 1, <<AutoActivateHead>>,
              << <<NL, DepsOpen, AutoActivateDeps, DepsClose>> >>)

\* old_animation_loop_pattern.sub('', content)
RemoveAnimationLoop(c) ==
  SubLazyFrom(c, 1, <<AnimationLoopHead>>, << <<NL, DepsOpen>>, <<DepsClose>> >>)

\* old_autoplay_pattern.sub('', content)
RemoveAutoPlay(c) ==
  SubLazyFrom(c, 1, <<AutoPlayHead>>, << <<NL, DepsOpen>>, <<DepsClose>> >>)

\* "  // Handle " .* " activation\n  const handleActivateEffect = " .*? "\n  };"
\* The first ".*" is greedy: it runs to the last declaration that a closing
\* "\n  };" still follows; the ".*?" then stops at the first closing.
RECURSIVE SubHandlerFrom(_, _)
SubHandlerFrom(s, i) ==
  LET h == FirstAt(s, i, <<HandleComment>>)
      closes == Occurrences(s, <<NL, BlockClose>>)
      decls == {q \in Occurrences(s, <<ActivateHandlerDecl>>) :
                  /\ h # 0
                  /\ q > h
                  /\ \E e \in closes : e > q}
      q == Max(decls)
      e == Min({x \in closes : x > q})
  IN  IF h = 0 \/ decls = {} THEN SubSeq(s, i, Len(s))
      ELSE SubSeq(s, i, h - 1) \o SubHandlerFrom(s, e + 2)

\* old_activate_handler_pattern.sub('', content)
RemoveActivateHandler(c) == SubHandlerFrom(c, 1)

Step4RemoveBlocks(c) ==
  RemoveAutoPlay(RemoveAnimationLoop(RemoveActivateHandler(RemoveAutoActivate(c))))

(***************************************************************************)
(* Step 5: the config memo and handleEffectComplete, after the marker.     *)
(***************************************************************************)
insert_marker == <<DepsOpen, "solution, movie, from, mode", DepsClose>>

\* the f-string: the memo up to its "    };", then "\n  }, [movie]);", then
\* the comment "  // Handle <Effect>Effect completion ..." and the handler up
\* to its closing "\n  };" and the last line break
initial_config(key) ==
  <<"\n  \n  // Compute initial " \o key \o " config (used by Movie"
      \o EFFECTS[key].effect_name \o "Player)\n  const initial"
      \o EFFECTS[key].effect_name \o "Config: " \o EFFECTS[key].config_type
      \o " = useMemo(() => {\n    const baseConfig = movie?.effect_config || "
      \o EFFECTS[key].default_config
      \o ";\n    return {\n      ...baseConfig,\n      preserveControls: true,\n    };",
    NL, DepsOpen, "movie", DepsClose, NL, NL,
    HandleComment,
    EFFECTS[key].effect_name
      \o "Effect completion (replaces setOnComplete)\n  const handleEffectComplete = () => {...\n      }, 3000);\n    }",
    NL, BlockClose, NL>>

Step5Unguarded(key, c) ==
  IF Contains(c, insert_marker)
  THEN Replace(c, insert_marker, insert_marker \o initial_config(key))
  ELSE c \o initial_config(key)

Step5InsertConfig(key, c) ==
  IF Contains(c, insert_marker)
  THEN Replace(c, insert_marker, insert_marker \o initial_config(key))
  ELSE c

(***************************************************************************)
(* Step 6: the headless controller JSX at the canvas marker.               *)
(***************************************************************************)
CanvasClose == "        )}"
SlidersComment == "        {/* Reveal / Explosion Sliders"

canvas_marker == <<CanvasClose, NL, "        ", NL, SlidersComment>>

controller_jsx(key) ==
  <<CanvasClose, NL, NL,
    "        {/* Headless " \o key \o " controller (no visual) */}\n        {effectContext && (\n          <Movie"
      \o EFFECTS[key].effect_name \o "Player\n            ref={" \o EFFECTS[key].ref_name
      \o "}\n            effectContext={effectContext}\n            baseConfig={initial"
      \o EFFECTS[key].effect_name
      \o "Config}\n            autoplay={autoplay}\n            loop={false}\n            onComplete={handleEffectComplete}\n          />",
    NL, CanvasClose, NL, "        ", NL, SlidersComment>>

Step6InsertController(key, c) ==
  IF Contains(c, canvas_marker)
  THEN Replace(c, canvas_marker, controller_jsx(key))
  ELSE c

\* the six steps of refactor_file in their order
Transform(key, c) ==
  Step6InsertController(key,
    Step5InsertConfig(key,
      Step4RemoveBlocks(
        Step3References(key,
          Step2State(key,
            Step1Import(key, c))))))

ChangedAlways(c, original) == TRUE

\* if content == original_content: ... return False
Changed(c, original) == c # original

(***************************************************************************)
(* Files and documents of the transformer.                                 *)
(***************************************************************************)
MissingFile == [exists |-> FALSE, decodable |-> TRUE, text |-> <<>>]
\* a file whose bytes are not UTF-8: read_text(encoding='utf-8') raises
UndecodableFile == [exists |-> TRUE, decodable |-> FALSE, text |-> <<>>]
TextFile(d) == [exists |-> TRUE, decodable |-> TRUE, text |-> d]

\* The pieces a movie page is made of: each anchor of the six steps, whole
\* and in parts, and text no step looks at.
Fragments(key) ==
  { old_import_line(key),
    old_state,
    <<"{", W, " &&", " (">>,
    <<AutoActivateHead, NL, DepsOpen, AutoActivateDeps, DepsClose>>,
    <<HandleComment, ActivateHandlerDecl, NL, BlockClose>>,
    <<AutoPlayHead>>,
    <<NL, DepsOpen, "movie", DepsClose>>,
    <<NL>> \o insert_marker,
    canvas_marker,
    <<"x">> }

Docs(key) == {Concat(fs) : fs \in SeqUpTo(Fragments(key), MaxFrags)}

\* The ways one activeEffectInstance can stand in the text: what is in
\* front of it and what follows it.
RefPrefixes == {<<>>, <<"if (">>, <<"if (", "!">>, <<"{">>}
RefSuffixes ==
  {<<".", Methods[m]>> : m \in 1..Len(Methods)}
    \cup {<<>>, <<")">>, <<" &&">>, <<" &&", " (">>, <<"?.">>, <<"?.", "play()">>}
RefContexts == {p \o <<W>> \o s : p \in RefPrefixes, s \in RefSuffixes}

\* contexts that share chunks with a neighbour or with another pattern
MixContexts == { <<"{", W, " &&", " (">>, <<W, "?.">> }

\* a single reference in each context, several references in a row, and a
\* legacy reference behind one that is already rewritten
RewriteDocs(key) ==
  RefContexts
    \cup {Concat(cs) : cs \in SeqUpTo(MixContexts, MaxCtx)}
    \cup {<<RefCurrent(key), "?.", "play()", W, "?.", "play()">>}

\* the files of the batch runs: absent, unreadable, nothing to change,
\* something to change
BatchFiles ==
  {MissingFile, UndecodableFile, TextFile(<<"x">>), TextFile(old_state)}

(***************************************************************************)
(* The deletion engine has not started and never starts in the runs of the *)
(* transformer, and the other way round.                                   *)
(***************************************************************************)
DeleteIdle ==
  /\ dfs = <<>>
  /\ dpc = "idle"
  /\ ranges = <<>>
  /\ lines = <<>>
  /\ rangeNo = 0
  /\ lines_to_delete = {}
  /\ kept_lines = <<>>
  /\ source0 = <<>>

RefactorStart ==
  /\ files0 = files
  /\ run = 1
  /\ history = <<>>
  /\ pc = "main_loop"
  /\ idx = 1
  /\ results = <<>>
  /\ summary = <<>>
  /\ content = <<>>
  /\ original_content = <<>>
  /\ retval = FALSE
  /\ io = <<>>
  /\ snap = <<>>
  /\ order = {}

Target(i, key) == [path |-> i, effect_key |-> key]

\* one target; any document made of the fragments, or no readable file
Init ==
  /\ \E key \in Keys :
       /\ files_to_refactor = <<Target(1, key)>>
       /\ \E f \in {MissingFile, UndecodableFile} \cup {TextFile(d) : d \in Docs(key)} :
            files = <<f>>
  /\ RefactorStart
  /\ DeleteIdle

\* one target; a document made of legacy references
InitRewrite ==
  /\ \E key \in Keys :
       /\ files_to_refactor = <<Target(1, key)>>
       /\ \E d \in RewriteDocs(key) : files = <<TextFile(d)>>
  /\ RefactorStart
  /\ DeleteIdle

\* a list of targets, each with a file of its own
InitBatch ==
  /\ \E n \in 1..MaxTargets :
       /\ \E ks \in [1..n -> Keys] :
            files_to_refactor = [i \in 1..n |-> Target(i, ks[i])]
       /\ files \in [1..n -> BatchFiles]
  /\ RefactorStart
  /\ DeleteIdle

(***************************************************************************)
(* main and refactor_file of refactor_movie_pages.py.                      *)
(***************************************************************************)
CurPath == files_to_refactor[idx].path
CurKey == files_to_refactor[idx].effect_key

FileExistsUnchecked(f) == TRUE

\* filepath.exists()
FileExists(f) == f.exists

\* for filepath, effect_key in files_to_refactor: refactor_file(...)
MainCall ==
  /\ pc = "main_loop"
  /\ idx <= Len(files_to_refactor)
  /\ pc' = "exists"
  /\ content' = <<>>
  /\ original_content' = <<>>
  /\ io' = <<>>
  /\ snap' = <<>>
  /\ order' = DOMAIN replacements(CurKey)
  /\ UNCHANGED <<dvars, files, files0, files_to_refactor, run, history, idx, results, summary, retval>>

\* if not filepath.exists(): return False
CheckExists ==
  /\ pc = "exists"
  /\ io' = Append(io, "exists")
  /\ IF FileExists(files[CurPath])
     THEN pc' = "read" /\ UNCHANGED retval
     ELSE pc' = "return" /\ retval' = FALSE
  /\ UNCHANGED <<dvars, files, files0, files_to_refactor, run, history, idx, results, summary,
                 content, original_content, snap, order>>

\* content = filepath.read_text(encoding='utf-8'); original_content = content
\* A decoding error is raised in refactor_file, which has no handler, and
\* passes through main, which has none either: the script ends.
ReadText ==
  /\ pc = "read"
  /\ io' = Append(io, "read")
  /\ IF files[CurPath].decodable
     THEN /\ content' = files[CurPath].text
          /\ original_content' = files[CurPath].text
          /\ pc' = "step1"
     ELSE /\ pc' = "crashed"
          /\ UNCHANGED <<content, original_content>>
  /\ UNCHANGED <<dvars, files, files0, files_to_refactor, run, history, idx, results, summary,
                 retval, snap, order>>

StepTo(here, next, new) ==
  /\ pc = here
  /\ content' = new
  /\ snap' = Append(snap, new)
  /\ pc' = next
  /\ UNCHANGED <<dvars, files, files0, files_to_refactor, run, history, idx, results, summary,
                 original_content, retval, io>>

Step1 == StepTo("step1", "step2", Step1Import(CurKey, content)) /\ UNCHANGED order
Step2 == StepTo("step2", "step3", Step2State(CurKey, content)) /\ UNCHANGED order
Step3 == StepTo("step3", "step4", Step3References(CurKey, content)) /\ order' = {}
Step4 == StepTo("step4", "step5", Step4RemoveBlocks(content)) /\ UNCHANGED order
Step5 == StepTo("step5", "step6", Step5InsertConfig(CurKey, content)) /\ UNCHANGED order
Step6 == StepTo("step6", "compare", Step6InsertController(CurKey, content)) /\ UNCHANGED order

\* Step 3 with the entries of 'replacements' taken in any order, one re.sub
\* at a time
Step3Any ==
  /\ pc = "step3"
  /\ \E p \in order :
       LET r == replacements(CurKey)[p]
           new == re_sub(r.pattern, r.replacement, content)
       IN  /\ content' = new
           /\ order' = order \ {p}
           /\ IF order' = {}
              THEN pc' = "step4" /\ snap' = Append(snap, new)
              ELSE UNCHANGED <<pc, snap>>
  /\ UNCHANGED <<dvars, files, files0, files_to_refactor, run, history, idx, results, summary,
                 original_content, retval, io>>

\* if content == original_content: print("No changes made"); return False
CheckChanged ==
  /\ pc = "compare"
  /\ IF Changed(content, original_content)
     THEN pc' = "write" /\ UNCHANGED retval
     ELSE pc' = "return" /\ retval' = FALSE
  /\ UNCHANGED <<dvars, files, files0, files_to_refactor, run, history, idx, results, summary,
                 content, original_content, io, snap, order>>

\* filepath.write_text(content, encoding='utf-8'); return True
WriteBack ==
  /\ pc = "write"
  /\ files' = [files EXCEPT ![CurPath] = TextFile(content)]
  /\ io' = Append(io, "write")
  /\ retval' = TRUE
  /\ pc' = "return"
  /\ UNCHANGED <<dvars, files0, files_to_refactor, run, history, idx, results, summary,
                 content, original_content, snap, order>>

\* success = refactor_file(...); results.append((filepath.name, success))
MainAppend ==
  /\ pc = "return"
  /\ results' = Append(results, [file |-> CurPath, success |-> retval])
  /\ idx' = idx + 1
  /\ pc' = "main_loop"
  /\ UNCHANGED <<dvars, files, files0, files_to_refactor, run, history, summary,
                 content, original_content, retval, io, snap, order>>

\* for filename, success in results: print(status, filename)
MainSummary ==
  /\ pc = "main_loop"
  /\ idx > Len(files_to_refactor)
  /\ summary' = results
  /\ pc' = "done"
  /\ UNCHANGED <<dvars, files, files0, files_to_refactor, run, history, idx, results,
                 content, original_content, retval, io, snap, order>>

\* the script is started again on the files the last run left
Rerun ==
  /\ pc \in {"done", "crashed"}
  /\ run < MaxRuns
  /\ run' = run + 1
  /\ history' = Append(history, results)
  /\ pc' = "main_loop"
  /\ idx' = 1
  /\ results' = <<>>
  /\ summary' = <<>>
  /\ files0' = files
  /\ UNCHANGED <<dvars, files, files_to_refactor, content, original_content, retval,
                 io, snap, order>>

Next ==
  \/ MainCall
  \/ CheckExists
  \/ ReadText
  \/ Step1
  \/ Step2
  \/ Step3
  \/ Step4
  \/ Step5
  \/ Step6
  \/ CheckChanged
  \/ WriteBack
  \/ MainAppend
  \/ MainSummary
  \/ Rerun

\* one invocation, step 3 in any order
NextAnyOrder ==
  \/ MainCall
  \/ CheckExists
  \/ ReadText
  \/ Step1
  \/ Step2
  \/ Step3Any
  \/ Step4
  \/ Step5
  \/ Step6
  \/ CheckChanged
  \/ WriteBack
  \/ MainAppend
  \/ MainSummary

Spec == Init /\ [][Next]_vars

SpecBatch == InitBatch /\ [][Next]_vars

SpecRewrite == InitRewrite /\ [][NextAnyOrder]_vars

(***************************************************************************)
(* main of remove-movie-code.py.  A line of the document is modelled by    *)
(* the number it has in the input file, so that the lines of the output    *)
(* tell where they come from.                                              *)
(***************************************************************************)
input_file == "SolvePage.tsx"
OutputOverInput == input_file
output_file == "SolvePage.tsx.cleaned"

AbsentFile == [exists |-> FALSE, lines |-> <<>>]
LinesFile(ls) == [exists |-> TRUE, lines |-> ls]

\* the entries DELETE_RANGES may hold: (start_line, end_line, description),
\* 1-indexed, inclusive, start <= end
RangeEntries ==
  {r \in (1..MaxLineNo) \X (1..MaxLineNo) \X {"movie code"} : r[1] <= r[2]}

InitDelete ==
  /\ \E n \in 0..MaxLines :
       /\ source0 = [i \in 1..n |-> i]
       /\ dfs = [p \in {input_file, output_file} |->
                   IF p = input_file THEN LinesFile([i \in 1..n |-> i])
                   ELSE AbsentFile]
  /\ ranges \in SeqUpTo(RangeEntries, MaxRanges)
  /\ dpc = "read"
  /\ lines = <<>>
  /\ rangeNo = 1
  /\ lines_to_delete = {}
  /\ kept_lines = <<>>
  /\ files = <<>>
  /\ files0 = <<>>
  /\ files_to_refactor = <<>>
  /\ pc = "idle"
  /\ run = 0
  /\ history = <<>>
  /\ idx = 0
  /\ results = <<>>
  /\ summary = <<>>
  /\ content = <<>>
  /\ original_content = <<>>
  /\ retval = FALSE
  /\ io = <<>>
  /\ snap = <<>>
  /\ order = {}

\* with open(input_file, 'r', encoding='utf-8') as f: lines = f.readlines()
ReadLines ==
  /\ dpc = "read"
  /\ lines' = dfs[input_file].lines
  /\ dpc' = "mark"
  /\ UNCHANGED <<rvars, dfs, ranges, rangeNo, lines_to_delete, kept_lines, source0>>

\* range(start - 1, end): the 0-indexed positions of lines start..end
RangeNotShifted(start, end) == start..(end - 1)

RangeIndices(start, end) == (start - 1)..(end - 1)

\* for start, end, desc in DELETE_RANGES:
\*     for line_num in range(start - 1, end): lines_to_delete.add(line_num)
MarkRange ==
  /\ dpc = "mark"
  /\ rangeNo <= Len(ranges)
  /\ lines_to_delete' =
       lines_to_delete \cup RangeIndices(ranges[rangeNo][1], ranges[rangeNo][2])
  /\ rangeNo' = rangeNo + 1
  /\ UNCHANGED <<rvars, dfs, dpc, ranges, lines, kept_lines, source0>>

\* [line for i, line in enumerate(lines) if i not in lines_to_delete]
RECURSIVE KeepFrom(_, _, _)
KeepFrom(ls, i, marked) ==
  IF i >= Len(ls) THEN <<>>
  ELSE (IF i \in marked THEN <<>> ELSE <<ls[i + 1]>>) \o KeepFrom(ls, i + 1, marked)

FilterRejectingOutOfBounds(ls, marked) ==
  IF \E i \in marked : i >= Len(ls) THEN ls ELSE KeepFrom(ls, 0, marked)

FilterLines(ls, marked) == KeepFrom(ls, 0, marked)

Filter ==
  /\ dpc = "mark"
  /\ rangeNo > Len(ranges)
  /\ kept_lines' = FilterLines(lines, lines_to_delete)
  /\ dpc' = "write"
  /\ UNCHANGED <<rvars, dfs, ranges, lines, rangeNo, lines_to_delete, source0>>

\* with open(output_file, 'w', encoding='utf-8') as f: f.writelines(kept_lines)
WriteCleaned ==
  /\ dpc = "write"
  /\ dfs' = [dfs EXCEPT ![output_file] = LinesFile(kept_lines)]
  /\ dpc' = "done"
  /\ UNCHANGED <<rvars, ranges, lines, rangeNo, lines_to_delete, kept_lines, source0>>

NextDelete ==
  \/ ReadLines
  \/ MarkRange
  \/ Filter
  \/ WriteCleaned

SpecDelete == InitDelete /\ [][NextDelete]_vars

(***************************************************************************)
(* The deletion engine.                                                    *)
(***************************************************************************)
\* the 0-indexed position i lies in one of the intervals [start-1, end-1]
Covered(i) ==
  \E r \in 1..Len(ranges) : ranges[r][1] - 1 <= i /\ i <= ranges[r][2] - 1

Survivors == {i \in 0..(Len(lines) - 1) : ~Covered(i)}

\* the j-th position, in increasing order, that no range covers
NthSurvivor(j) ==
  CHOOSE i \in Survivors : Cardinality({x \in Survivors : x < i}) = j - 1

Filtered == dpc \in {"write", "done"}

\* C5: the output is exactly the input lines whose position is in no
\* interval [start-1, end-1], in their original order; a line covered by
\* several ranges is removed once, so the output has n minus the number of
\* distinct covered in-bounds positions lines; it is what the output file
\* holds.
C5_DeletionUnion ==
  Filtered =>
    /\ Len(kept_lines) =
         Len(lines) - Cardinality({i \in 0..(Len(lines) - 1) : Covered(i)})
    /\ \A j \in 1..Len(kept_lines) : kept_lines[j] = lines[NthSurvivor(j) + 1]
    /\ dpc = "done" => dfs[output_file] = LinesFile(kept_lines)

\* two ranges that share their boundary line, as (10,12),(12,15): the lines
\* of both are gone once, and the line in front of the first range is
\* followed by the line behind the second
C5_Witness ==
  /\ dpc = "done"
  /\ Len(ranges) = 2
  /\ 1 < ranges[1][1]
  /\ ranges[1][1] < ranges[1][2]
  /\ ranges[1][2] = ranges[2][1]
  /\ ranges[2][1] < ranges[2][2]
  /\ ranges[2][2] < Len(lines)
  /\ Len(kept_lines) = Len(lines) - (ranges[2][2] - ranges[1][1] + 1)
  /\ kept_lines[ranges[1][1] - 1] = lines[ranges[1][1] - 1]
  /\ kept_lines[ranges[1][1]] = lines[ranges[2][2] + 1]

\* C6: a range that ends behind the last line removes the lines from its
\* start to the last line; the lines in front of every range stay as they
\* are, and with that range alone the output is the lines in front of it.
\* The run comes to its end like any other.
C6_OutOfBoundsTolerated ==
  Filtered =>
    \A r \in 1..Len(ranges) :
      ranges[r][2] > Len(lines) =>
        /\ \A p \in ranges[r][1]..Len(lines) :
             \A j \in 1..Len(kept_lines) : kept_lines[j] # lines[p]
        /\ \A p \in 1..Len(lines) :
             (\A q \in 1..Len(ranges) : p < ranges[q][1]) => kept_lines[p] = lines[p]
        /\ Len(ranges) = 1 =>
             kept_lines =
               SubSeq(lines, 1, IF ranges[r][1] - 1 < Len(lines)
                                THEN ranges[r][1] - 1 ELSE Len(lines))

\* the range (start, end) with 1 < start <= n < end, as (95, 200) on 100 lines
C6_Witness ==
  /\ dpc = "done"
  /\ Len(ranges) = 1
  /\ 1 < ranges[1][1]
  /\ ranges[1][1] <= Len(lines)
  /\ ranges[1][2] > Len(lines)
  /\ kept_lines = SubSeq(lines, 1, ranges[1][1] - 1)
  /\ dfs[output_file] = LinesFile(kept_lines)

\* C7: the output path is not the input path; the input file holds at every
\* moment what it held before the run; the filtered lines go to the output
\* file, which is written at the end of the run and not before.
C7_SourceNeverModified ==
  /\ output_file # input_file
  /\ dfs[input_file] = LinesFile(source0)
  /\ dpc = "done" => dfs[output_file] = LinesFile(kept_lines)
  /\ dpc # "done" => dfs[output_file] = AbsentFile

C7_Witness ==
  /\ dpc = "done"
  /\ kept_lines # source0
  /\ dfs[output_file] = LinesFile(kept_lines)
  /\ dfs[input_file] = LinesFile(source0)

(***************************************************************************)
(* refactor_file and main: files and outcomes.                             *)
(***************************************************************************)
Returned == pc = "return"

\* C3: when refactor_file returns after reading the file, content is the
\* content after the six steps; if it differs from the content read, the
\* file was written once, after the steps, with the final content, and the
\* value is True; if it is equal, the file was not written, holds what was
\* read, and the value is False.
C3_WriteIffChanged ==
  (Returned /\ Len(io) >= 2) =>
    /\ Len(snap) = 6
    /\ content = snap[6]
    /\ original_content = files0[CurPath].text
    /\ content # original_content =>
         /\ retval = TRUE
         /\ io = <<"exists", "read", "write">>
         /\ files[CurPath] = TextFile(content)
    /\ content = original_content =>
         /\ retval = FALSE
         /\ io = <<"exists", "read">>
         /\ files[CurPath] = files0[CurPath]

C3_Witness ==
  /\ Returned
  /\ retval = TRUE
  /\ io = <<"exists", "read", "write">>
  /\ content # original_content
  /\ files[CurPath] = TextFile(content)
  /\ files0[CurPath] = TextFile(original_content)

\* what refactor_file returns for a file, whatever else is in the list
Outcome(f, key) == f.exists /\ Transform(key, f.text) # f.text

\* C8: for a missing target refactor_file returns False after the existence
\* check alone: no read, no step, no write, and the file is still missing.
\* A missing file never ends the run: every target handled so far, in front
\* of or behind a missing one, has the outcome its own file and key give,
\* and a run that is not ended by an unreadable file handles every target.
C8_MissingFile ==
  /\ (Returned /\ ~files0[CurPath].exists) =>
       /\ retval = FALSE
       /\ io = <<"exists">>
       /\ snap = <<>>
       /\ files[CurPath] = MissingFile
  /\ \A j \in 1..Len(results) :
       /\ results[j].file = files_to_refactor[j].path
       /\ results[j].success = Outcome(files0[j], files_to_refactor[j].effect_key)
       /\ ~files0[j].exists => files[j] = MissingFile
  /\ pc = "crashed" => ~files0[CurPath].decodable
  /\ pc = "done" => Len(results) = Len(files_to_refactor)

\* a missing file in front of a file that is then refactored
C8_Witness ==
  /\ pc = "done"
  /\ \E j \in 1..(Len(results) - 1) :
       /\ ~files0[j].exists
       /\ results[j].success = FALSE
       /\ results[j + 1].success = TRUE

\* C4: however the files fail, the run ends with the summary, one entry per
\* target in the order of the list, False for each file that failed.
C4_ContinueOnError ==
  pc \in {"done", "crashed"} =>
    /\ pc = "done"
    /\ Len(summary) = Len(files_to_refactor)
    /\ \A j \in 1..Len(summary) :
         /\ summary[j].file = files_to_refactor[j].path
         /\ ~Outcome(files0[j], files_to_refactor[j].effect_key) => ~summary[j].success

\* C1: a second run on a file the first run changed and wrote changes
\* nothing: the content after the steps is the content read, the value is
\* False and the file is not written.
C1_Idempotent ==
  (Returned /\ run >= 2 /\ Len(io) >= 2 /\ history[run - 1][idx].success) =>
    /\ content = original_content
    /\ retval = FALSE
    /\ io = <<"exists", "read">>

(***************************************************************************)
(* refactor_file: the steps.  snap[i] is the content after step i of the   *)
(* current call.                                                           *)
(***************************************************************************)
StepsDone == pc \in {"compare", "write", "return"} /\ Len(snap) = 6

Legacy(key) ==
  << <<<<W, ".", "play()">>, <<RefCurrent(key), "?.", "play()">>>>,
     <<<<W, ".", "pause()">>, <<RefCurrent(key), "?.", "pause()">>>>,
     <<<<W, ".", "stop()">>, <<RefCurrent(key), "?.", "stop()">>>>,
     <<<<W, ".", "dispose()">>, <<RefCurrent(key), "?.", "dispose()">>>>,
     <<<<W, ".", "getConfig()">>, <<RefCurrent(key), "?.", "getConfig()">>>>,
     <<<<W, ".", "setRecording(">>, <<RefCurrent(key), "?.", "setRecording(">>>>,
     <<<<W, ".", "setConfig(">>, <<RefCurrent(key), "?.", "setConfig(">>>>,
     <<<<"if (", W, ")">>, <<"if (", RefCurrent(key), ")">>>>,
     <<<<"if (", "!", W, ")">>, <<"if (", "!", RefCurrent(key), ")">>>>,
     <<<<W, " &&", " (">>, <<RefCurrent(key), " &&", " (">>>>,
     <<<<"{", W, " &&">>, <<"{", RefCurrent(key), " &&">>>>,
     <<<<W, "?.">>, <<RefCurrent(key), "?.">>>> >>

\* the positions of s that some legacy occurrence covers
InLegacy(key, s) ==
  {i \in 1..Len(s) :
     \E l \in 1..Len(Legacy(key)) :
       \E p \in Occurrences(s, Legacy(key)[l][1]) :
         p <= i /\ i < p + Len(Legacy(key)[l][1])}

Count(s, chunk) == Cardinality({i \in 1..Len(s) : s[i] = chunk})

\* C9: after step 3, in whatever order its twelve patterns were applied, no
\* legacy pattern matches; where a legacy pattern occurred, its
\* '<ref_name>.current' form stands, one for one (as many
\* activeEffectInstance gone and as many '<ref_name>.current' more as there
\* were legacy references); the text outside the occurrences is as it was;
\* and the result is the result of the order of the source.
C9_ReferenceRewrite ==
  (pc \notin {"main_loop", "done", "crashed"} /\ Len(snap) >= 3) =>
    LET before == snap[2]
        after == snap[3]
        rewritten == {i \in InLegacy(CurKey, before) : before[i] = W}
    IN  /\ \A l \in 1..Len(Legacy(CurKey)) : ~Contains(after, Legacy(CurKey)[l][1])
        /\ Len(after) = Len(before)
        /\ \A l \in 1..Len(Legacy(CurKey)) :
             \A p \in Occurrences(before, Legacy(CurKey)[l][1]) :
               MatchAt(after, p, Legacy(CurKey)[l][2])
        /\ \A i \in 1..Len(before) :
             i \notin InLegacy(CurKey, before) => after[i] = before[i]
        /\ Count(after, W) = Count(before, W) - Cardinality(rewritten)
        /\ Count(after, RefCurrent(CurKey)) =
             Count(before, RefCurrent(CurKey)) + Cardinality(rewritten)
        /\ after = Step3References(CurKey, before)

\* three occurrences of the optional chaining pattern become three
\* occurrences of the rewritten form
C9_Witness ==
  /\ pc = "step4"
  /\ Len(snap) = 3
  /\ Cardinality(Occurrences(snap[2], <<W, "?.">>)) = 3
  /\ Cardinality(Occurrences(snap[3], <<W, "?.">>)) = 0
  /\ Cardinality(Occurrences(snap[3], <<RefCurrent(CurKey), "?.">>)) = 3

AnyLegacy(key, s) ==
  \E l \in 1..Len(Legacy(key)) : Contains(s, Legacy(key)[l][1])

\* C10: a step whose marker is absent when the step runs leaves the content
\* as it is; the import swap, the state declaration and the reference
\* rewrite change the content whenever their anchor is there; and when one
\* of them did while a marker was absent, refactor_file returns True with
\* the final content written to the file.
C10_MarkerAbsence ==
  (Returned /\ Len(snap) = 6) =>
    LET noConfigMarker == ~Contains(snap[4], insert_marker)
        noCanvasMarker == ~Contains(snap[5], canvas_marker)
        importThere == Contains(original_content, old_import_line(CurKey))
        stateThere == Contains(snap[1], old_state)
        legacyThere == AnyLegacy(CurKey, snap[2])
    IN  /\ noConfigMarker => snap[5] = snap[4]
        /\ noCanvasMarker => snap[6] = snap[5]
        /\ importThere =>
             snap[1] # original_content /\ Contains(snap[1], new_import(CurKey))
        /\ stateThere => snap[2] # snap[1] /\ Contains(snap[2], new_state(CurKey))
        /\ legacyThere => snap[3] # snap[2]
        /\ ((noConfigMarker \/ noCanvasMarker)
              /\ (importThere \/ stateThere \/ legacyThere)) =>
             /\ retval = TRUE
             /\ files[CurPath] = TextFile(content)
             /\ content = snap[6]

\* both markers absent, the import swapped and written
C10_Witness ==
  /\ Returned
  /\ Len(snap) = 6
  /\ ~Contains(snap[4], insert_marker)
  /\ ~Contains(snap[5], canvas_marker)
  /\ snap[6] = snap[4]
  /\ Contains(original_content, old_import_line(CurKey))
  /\ Contains(content, new_import(CurKey))
  /\ retval = TRUE
  /\ files[CurPath] = TextFile(content)

=============================================================================
